---- MODULE Spec2Model ----
(***************************************************************************)
(* SQL Intent Executor: the /query handler (app/main.py), the keyword      *)
(* intent matcher (app/intent_matcher.py), the unpooled Oracle execution   *)
(* path (app/query_executor.py, app/config.py) and the in-memory session   *)
(* store (app/memory_manager.py).                                          *)
(*                                                                         *)
(* Strings are sequences of one-character strings, so that str.lower() and *)
(* the substring test `kw in text` are computed rather than assumed.       *)
(* Python dicts are functions whose DOMAIN is the set of keys present.     *)
(***************************************************************************)
EXTENDS Integers, Sequences, FiniteSets, TLC

\* ------------------------------------------------------------------ bounds
\* Number of request slots (requests that may be pending or in flight at once).
MaxRequests == 2
\* Number of threads that call the session store in the threaded specification.
MaxThreads == 2

Requests == 1..MaxRequests

\* ----------------------------------------------------------------- strings
\* str.lower(), one character at a time (only the letters the model uses).
LowerChar(c) ==
    CASE c = "S" -> "s"
      [] c = "A" -> "a"
      [] c = "L" -> "l"
      [] c = "E" -> "e"
      [] c = "D" -> "d"
      [] c = "V" -> "v"
      [] OTHER -> c

Lower(s) == [i \in 1..Len(s) |-> LowerChar(s[i])]

\* Python's `sub in s` on str: sub occurs as a contiguous substring of s.
Contains(sub, s) ==
    \E i \in 0..(Len(s) - Len(sub)) : SubSeq(s, i + 1, i + Len(sub)) = sub

\* ------------------------------------------------------------------- dicts
EmptyDict == <<>>

HasKey(d, k) == k \in DOMAIN d

\* dict.get(k, default)
DictGet(d, k, default) == IF k \in DOMAIN d THEN d[k] ELSE default

\* d[k] = v
DictSet(d, k, v) == [x \in (DOMAIN d) \cup {k} |-> IF x = k THEN v ELSE d[x]]

\* ------------------------------------------------------------ input values
W_sales == <<"s", "a", "l", "e", "s">>
W_Sales == <<"S", "a", "l", "e", "s">>
W_2023 == <<"2", "0", "2", "3">>
W_inv == <<"i", "n", "v">>

\* Query texts a client may send in payload["query_text"].
Texts ==
    { W_sales \o <<" ">> \o W_2023,     \* "sales 2023"
      W_sales,                          \* "sales"
      <<"S", "A", "L", "E", "S">>,      \* "SALES"
      W_inv,                            \* "inv"
      W_2023 }                          \* "2023"

E_DEV == <<"D", "E", "V">>
E_stg == <<"s", "t", "g">>

\* Names x for which a file .env.<x> exists in the working directory.
EnvFiles == { <<"d", "e", "v">> }

UserIds == {"u1"}

\* An optional value is a sequence of length 0 (key absent) or 1 (key present).
Opt(S) == { <<>> } \cup { <<x>> : x \in S }

\* The payload dict with exactly the keys whose option is present.
MkPayload(q, e, u) ==
    [k \in (IF q # <<>> THEN {"query_text"} ELSE {})
            \cup (IF e # <<>> THEN {"env"} ELSE {})
            \cup (IF u # <<>> THEN {"user_id"} ELSE {}) |->
        CASE k = "query_text" -> q[1]
          [] k = "env" -> e[1]
          [] k = "user_id" -> u[1]]

\* Request payloads: any subset of the three keys the handler reads.
Payloads ==
    { MkPayload(q, e, u) : q \in Opt(Texts), e \in Opt({E_stg}), u \in Opt(UserIds) }

\* -------------------------------------------------- app/queries/queries.json
\* A parsed catalog file: the entries in file order, each a name and a details
\* dict with optional "keywords" and "sql".
SQL_year == "SELECT * FROM SALES WHERE YEAR = :year"
SQL_all == "SELECT * FROM SALES"

Entry(name, details) == [name |-> name, details |-> details]

CatalogFiles ==
    { \* the scenario catalog
      << Entry("sales_2023", [keywords |-> <<W_sales, W_2023>>, sql |-> SQL_year]) >>,
      \* an earlier rule that is a subset of a later one
      << Entry("sales", [keywords |-> <<W_sales>>, sql |-> SQL_all]),
         Entry("sales_2023", [keywords |-> <<W_sales, W_2023>>, sql |-> SQL_year]) >>,
      \* an entry without "keywords" ahead of an ordinary one
      << Entry("any", [sql |-> SQL_all]),
         Entry("sales", [keywords |-> <<W_sales>>, sql |-> SQL_all]) >>,
      \* a keyword written with a capital, an entry without "sql", and an
      \* entry whose name is the empty string
      << Entry("cap_sales", [keywords |-> <<W_Sales>>, sql |-> SQL_all]),
         Entry("inv", [keywords |-> <<W_inv>>]),
         Entry("", [keywords |-> <<W_2023>>, sql |-> SQL_year]) >>,
      \* an empty catalog
      << >> }

Names(queries) == { queries[i].name : i \in 1..Len(queries) }

\* queries[name]
Details(queries, name) ==
    queries[CHOOSE i \in 1..Len(queries) : queries[i].name = name].details

\* ----------------------------------------------------- app/intent_matcher.py
\* all(keyword in query_text_lower for keyword in details.get("keywords", []))
AllKeywordsIn(details, query_text_lower) ==
    LET keywords == DictGet(details, "keywords", <<>>)
    IN  \A i \in 1..Len(keywords) : Contains(keywords[i], query_text_lower)

\* The for loop over queries.items(), from position i on: the name of the first
\* entry whose keywords are all in the lowered text, as <<name>>, or <<>> (None).
RECURSIVE MatchFrom(_, _, _)
MatchFrom(queries, query_text_lower, i) ==
    IF i > Len(queries) THEN <<>>
    ELSE IF AllKeywordsIn(queries[i].details, query_text_lower)
         THEN << queries[i].name >>
         ELSE MatchFrom(queries, query_text_lower, i + 1)

\* match_intent(query_text) for a str query_text, with the file's contents.
match_intent(query_text, queries) == MatchFrom(queries, Lower(query_text), 1)

\* ------------------------------------------------------------- app/config.py
\* os.path.exists(f".env.{env_name.lower()}")
EnvFileExists(env_name) == Lower(env_name) \in EnvFiles

\* ----------------------------------------------------- app/memory_manager.py
\* if session_id not in _memory_store: _memory_store[session_id] = {}
EnsureEntry(store, session_id) ==
    IF HasKey(store, session_id) THEN store ELSE DictSet(store, session_id, EmptyDict)

\* _memory_store[session_id]["last_query"] = last_query
SetLastQuery(store, session_id, last_query) ==
    DictSet(store, session_id, DictSet(store[session_id], "last_query", last_query))

\* Variant: the new params are merged into the entry's old ones.
SetParams_Merge(store, session_id, params) ==
    LET old == DictGet(store[session_id], "params", EmptyDict)
        merged == [k \in (DOMAIN old) \cup (DOMAIN params) |->
                      IF k \in DOMAIN params THEN params[k] ELSE old[k]]
    IN  DictSet(store, session_id, DictSet(store[session_id], "params", merged))

\* _memory_store[session_id]["params"] = params
SetParams(store, session_id, params) ==
    DictSet(store, session_id, DictSet(store[session_id], "params", params))

\* update_context(session_id, last_query, params), run without interruption.
update_context(store, session_id, last_query, params) ==
    SetParams(SetLastQuery(EnsureEntry(store, session_id), session_id, last_query),
              session_id, params)

\* get_context(session_id): <<entry>>, or <<>> for None.
get_context(store, session_id) ==
    IF HasKey(store, session_id) THEN << store[session_id] >> ELSE <<>>

\* --------------------------------------------------------------- app/main.py
\* params = {"year": 2023} if "2023" in user_query else {}
ExtractParams(user_query) ==
    IF Contains(W_2023, user_query) THEN [year |-> 2023] ELSE EmptyDict

\* `not query_name`: None and the empty string are falsy.
Falsy(query_name) == IF query_name = <<>> THEN TRUE ELSE query_name[1] = ""

VARIABLES
    queries_file,   \* contents of app/queries/queries.json on disk
    memory_store,   \* memory_manager._memory_store
    loop,           \* the request whose coroutine occupies the event loop, or 0
    frame,          \* per request: position and locals of handle_query / execute_query
    succeeded,      \* history: session ids of requests whose execute_query returned
    thread,         \* per thread: position and arguments inside update_context
    observed,       \* what the latest get_context caller sees behind the returned reference
    writes,         \* history: the update_context calls the threads have issued
    calls,          \* history: the last two calls of a single-threaded caller
    written         \* history: session ids a single-threaded caller has written

vars == <<queries_file, memory_store, loop, frame, succeeded,
          thread, observed, writes, calls, written>>
serverVars == <<queries_file, loop, frame, succeeded>>
clientVars == <<thread, observed, writes, calls, written>>

Threads == 1..MaxThreads

\* The locals of a request that has not started.
IdleFrame ==
    [pc |-> "idle", payload |-> EmptyDict, query_name |-> <<>>, params |-> EmptyDict,
     match_queries |-> <<>>, exec_queries |-> <<>>, called |-> FALSE,
     env_config |-> FALSE, conn |-> "none", cursor |-> "none",
     status |-> 0, error |-> "", store0 |-> EmptyDict]

user_query(r) == frame[r].payload["query_text"]
user_env(r) == DictGet(frame[r].payload, "env", E_DEV)
user_id(r) == DictGet(frame[r].payload, "user_id", "default")

\* The handler ends by raising: the response is built while still on the loop.
Raise(r, status, error, f) ==
    frame' = [frame EXCEPT ![r] = [f EXCEPT !.pc = "done", !.status = status,
                                             !.error = error]]

ServerInit ==
    /\ queries_file \in CatalogFiles
    /\ memory_store = EmptyDict
    /\ loop = 0
    /\ frame = [r \in Requests |-> IdleFrame]
    /\ succeeded = {}

IdleThread == [pc |-> "idle", session_id |-> "", last_query |-> "", params |-> EmptyDict]

ClientInit ==
    /\ thread = [t \in Threads |-> IdleThread]
    /\ observed = <<>>
    /\ writes = {}
    /\ calls = <<>>
    /\ written = {}

Init == ServerInit /\ ClientInit

\* ------------------------------------------------- handle_query, step by step
\* A request reaches the server and waits for the event loop.
Arrive(r) ==
    /\ frame[r].pc = "idle"
    /\ frame' = [frame EXCEPT ![r].pc = "pending"]
    /\ UNCHANGED <<queries_file, memory_store, loop, succeeded, clientVars>>

\* main.py 19-23: the coroutine is scheduled; it has no await, so it keeps the
\* loop until it returns or raises.
Begin(r) ==
    /\ frame[r].pc = "pending"
    /\ loop = 0
    /\ \E p \in Payloads :
         frame' = [frame EXCEPT ![r] = [IdleFrame EXCEPT !.pc = "l25", !.payload = p,
                                                          !.store0 = memory_store]]
    /\ loop' = r
    /\ UNCHANGED <<queries_file, memory_store, succeeded, clientVars>>

\* main.py 25 with query_text absent: match_intent(None) reads the file and
\* then fails on None.lower(); the global handler answers 500.
MatchRaises(r) ==
    /\ loop = r /\ frame[r].pc = "l25"
    /\ ~HasKey(frame[r].payload, "query_text")
    /\ Raise(r, 500, "AttributeError", [frame[r] EXCEPT !.match_queries = queries_file])
    /\ UNCHANGED <<queries_file, memory_store, loop, succeeded, clientVars>>

\* main.py 25-27: no usable name, HTTPException(400).
MatchNone(r) ==
    /\ loop = r /\ frame[r].pc = "l25"
    /\ HasKey(frame[r].payload, "query_text")
    /\ LET query_name == match_intent(user_query(r), queries_file)
       IN  /\ Falsy(query_name)
           /\ Raise(r, 400, "HTTPException",
                    [frame[r] EXCEPT !.match_queries = queries_file,
                                     !.query_name = query_name])
    /\ UNCHANGED <<queries_file, memory_store, loop, succeeded, clientVars>>

\* Variant: the session entry is written as soon as a name is matched.
MatchFound_UpdatesFirst(r) ==
    /\ loop = r /\ frame[r].pc = "l25"
    /\ HasKey(frame[r].payload, "query_text")
    /\ LET query_name == match_intent(user_query(r), queries_file)
       IN  /\ ~Falsy(query_name)
           /\ frame' = [frame EXCEPT ![r] =
                  [frame[r] EXCEPT !.pc = "l32", !.match_queries = queries_file,
                                   !.query_name = query_name,
                                   !.params = ExtractParams(user_query(r))]]
           /\ memory_store' = update_context(memory_store, user_id(r), query_name[1],
                                             ExtractParams(user_query(r)))
    /\ UNCHANGED <<queries_file, loop, succeeded, clientVars>>

\* main.py 25-30: a name was matched; extract the parameters.
MatchFound(r) ==
    /\ loop = r /\ frame[r].pc = "l25"
    /\ HasKey(frame[r].payload, "query_text")
    /\ LET query_name == match_intent(user_query(r), queries_file)
       IN  /\ ~Falsy(query_name)
           /\ frame' = [frame EXCEPT ![r] =
                  [frame[r] EXCEPT !.pc = "l32", !.match_queries = queries_file,
                                   !.query_name = query_name,
                                   !.params = ExtractParams(user_query(r))]]
    /\ UNCHANGED <<queries_file, memory_store, loop, succeeded, clientVars>>

\* ------------------------------------------------ execute_query, step by step
\* query_executor.py 6 / config.py 6-7: no .env file for the environment.
EnvMissing(r) ==
    /\ loop = r /\ frame[r].pc = "l32"
    /\ ~EnvFileExists(user_env(r))
    /\ Raise(r, 500, "FileNotFoundError", [frame[r] EXCEPT !.called = TRUE])
    /\ UNCHANGED <<queries_file, memory_store, loop, succeeded, clientVars>>

\* query_name in queries and "sql" in queries[query_name]
SqlFound(query_name, queries) ==
    /\ query_name # <<>>
    /\ query_name[1] \in Names(queries)
    /\ HasKey(Details(queries, query_name[1]), "sql")

\* query_executor.py 6-16: profile loaded, file read again, template looked up.
ExecPrepare(r) ==
    /\ loop = r /\ frame[r].pc = "l32"
    /\ EnvFileExists(user_env(r))
    /\ SqlFound(frame[r].query_name, queries_file)
    /\ frame' = [frame EXCEPT ![r] =
           [frame[r] EXCEPT !.pc = "l18", !.called = TRUE, !.env_config = TRUE,
                            !.exec_queries = queries_file]]
    /\ UNCHANGED <<queries_file, memory_store, loop, succeeded, clientVars>>

\* query_executor.py 12-15, 36-38: ValueError (name not in the file as read
\* now) or KeyError (entry without "sql"), logged and re-raised.
ExecPrepareRaises(r) ==
    /\ loop = r /\ frame[r].pc = "l32"
    /\ EnvFileExists(user_env(r))
    /\ ~SqlFound(frame[r].query_name, queries_file)
    /\ Raise(r, 500,
             IF frame[r].query_name # <<>> /\ frame[r].query_name[1] \in Names(queries_file)
             THEN "KeyError" ELSE "ValueError",
             [frame[r] EXCEPT !.called = TRUE, !.env_config = TRUE,
                              !.exec_queries = queries_file])
    /\ UNCHANGED <<queries_file, memory_store, loop, succeeded, clientVars>>

\* query_executor.py 18-23: connection and cursor opened.
Connect(r) ==
    /\ loop = r /\ frame[r].pc = "l18"
    /\ frame' = [frame EXCEPT ![r].pc = "l24", ![r].conn = "open", ![r].cursor = "open"]
    /\ UNCHANGED <<queries_file, memory_store, loop, succeeded, clientVars>>

\* query_executor.py 18, 33-35: oracledb.connect raises.
ConnectRaises(r) ==
    /\ loop = r /\ frame[r].pc = "l18"
    /\ Raise(r, 500, "DatabaseError in connect", frame[r])
    /\ UNCHANGED <<queries_file, memory_store, loop, succeeded, clientVars>>

\* query_executor.py 24-25: the statement ran.
ExecuteOk(r) ==
    /\ loop = r /\ frame[r].pc = "l24"
    /\ frame' = [frame EXCEPT ![r].pc = "l26"]
    /\ UNCHANGED <<queries_file, memory_store, loop, succeeded, clientVars>>

\* query_executor.py 24, 33-35: cursor.execute raises; the except clauses log
\* and re-raise, lines 27-28 are skipped.
ExecuteRaises(r) ==
    /\ loop = r /\ frame[r].pc = "l24"
    /\ Raise(r, 500, "DatabaseError in execute", frame[r])
    /\ UNCHANGED <<queries_file, memory_store, loop, succeeded, clientVars>>

\* query_executor.py 26-31: rows fetched, cursor and connection closed, return.
FetchOk(r) ==
    /\ loop = r /\ frame[r].pc = "l26"
    /\ frame' = [frame EXCEPT ![r].pc = "l33", ![r].cursor = "closed",
                              ![r].conn = "closed"]
    /\ succeeded' = succeeded \cup {user_id(r)}
    /\ UNCHANGED <<queries_file, memory_store, loop, clientVars>>

\* query_executor.py 26, 33-35: cursor.fetchall raises.
FetchRaises(r) ==
    /\ loop = r /\ frame[r].pc = "l26"
    /\ Raise(r, 500, "DatabaseError in fetchall", frame[r])
    /\ UNCHANGED <<queries_file, memory_store, loop, succeeded, clientVars>>

\* main.py 33-41: the session entry is written and the result returned.
UpdateAndReturn(r) ==
    /\ loop = r /\ frame[r].pc = "l33"
    /\ memory_store' = update_context(memory_store, user_id(r), frame[r].query_name[1],
                                      frame[r].params)
    /\ frame' = [frame EXCEPT ![r].pc = "done", ![r].status = 200]
    /\ UNCHANGED <<queries_file, loop, succeeded, clientVars>>

\* The response is sent; the loop is free for the next coroutine.
Respond(r) ==
    /\ loop = r /\ frame[r].pc = "done"
    /\ frame' = [frame EXCEPT ![r] = IdleFrame]
    /\ loop' = 0
    /\ UNCHANGED <<queries_file, memory_store, succeeded, clientVars>>

\* Someone edits app/queries/queries.json while the server runs.
EditQueriesFile ==
    /\ \E f \in CatalogFiles \ {queries_file} : queries_file' = f
    /\ UNCHANGED <<memory_store, loop, frame, succeeded, clientVars>>

Next ==
    \/ \E r \in Requests :
         \/ Arrive(r) \/ Begin(r)
         \/ MatchRaises(r) \/ MatchNone(r) \/ MatchFound(r)
         \/ EnvMissing(r) \/ ExecPrepare(r) \/ ExecPrepareRaises(r)
         \/ Connect(r) \/ ConnectRaises(r)
         \/ ExecuteOk(r) \/ ExecuteRaises(r)
         \/ FetchOk(r) \/ FetchRaises(r)
         \/ UpdateAndReturn(r) \/ Respond(r)
    \/ EditQueriesFile

Spec == Init /\ [][Next]_vars

\* ------------------------------------- the session store, one caller at a time
\* Values a caller may pass to update_context / get_context.
SessionIds == {"u1", "default"}
QueryNames == {"sales", "sales_2023"}
ParamSets == {EmptyDict, [year |-> 2023]}

\* The last two calls, newest first; only the newest keeps the store it found.
Logged(call) ==
    IF calls = <<>> THEN <<call>>
    ELSE <<call, [calls[1] EXCEPT !.before = EmptyDict]>>

\* A caller runs update_context(session_id, last_query, params) to completion.
SeqUpdate(session_id, last_query, params) ==
    /\ memory_store' = update_context(memory_store, session_id, last_query, params)
    /\ written' = written \cup {session_id}
    /\ calls' = Logged([op |-> "update", session_id |-> session_id,
                        last_query |-> last_query, params |-> params,
                        result |-> <<>>, before |-> memory_store])
    /\ UNCHANGED <<serverVars, thread, observed, writes>>

\* A caller runs get_context(session_id).
SeqGet(session_id) ==
    /\ calls' = Logged([op |-> "get", session_id |-> session_id,
                        last_query |-> "", params |-> EmptyDict,
                        result |-> get_context(memory_store, session_id),
                        before |-> memory_store])
    /\ UNCHANGED <<serverVars, memory_store, thread, observed, writes, written>>

SeqNext ==
    \/ \E session_id \in SessionIds, last_query \in QueryNames, params \in ParamSets :
         SeqUpdate(session_id, last_query, params)
    \/ \E session_id \in SessionIds : SeqGet(session_id)

\* The catalog file plays no part here: it stays the scenario catalog.
ClientStart == Init /\ Len(queries_file) = 1

SeqSpec == ClientStart /\ [][SeqNext]_vars

\* ------------------------------- the session store, called from several threads
\* The interpreter may switch threads between any two statements of
\* update_context; the module takes no lock. All threads use one session id.
SharedId == "u1"

ThreadCallUpdate(t, session_id, last_query, params) ==
    /\ thread[t].pc = "idle"
    /\ thread' = [thread EXCEPT ![t] = [pc |-> "l6", session_id |-> session_id,
                                        last_query |-> last_query, params |-> params]]
    /\ writes' = writes \cup {<<session_id, last_query, params>>}
    /\ UNCHANGED <<serverVars, memory_store, observed, calls, written>>

\* memory_manager.py 6: if session_id not in _memory_store
ThreadLine6(t) ==
    /\ thread[t].pc = "l6"
    /\ thread' = [thread EXCEPT ![t].pc =
                      IF HasKey(memory_store, thread[t].session_id) THEN "l8" ELSE "l7"]
    /\ UNCHANGED <<serverVars, memory_store, observed, writes, calls, written>>

\* memory_manager.py 7: _memory_store[session_id] = {}
ThreadLine7(t) ==
    /\ thread[t].pc = "l7"
    /\ memory_store' = DictSet(memory_store, thread[t].session_id, EmptyDict)
    /\ thread' = [thread EXCEPT ![t].pc = "l8"]
    /\ UNCHANGED <<serverVars, observed, writes, calls, written>>

\* memory_manager.py 8
ThreadLine8(t) ==
    /\ thread[t].pc = "l8"
    /\ memory_store' = SetLastQuery(memory_store, thread[t].session_id, thread[t].last_query)
    /\ thread' = [thread EXCEPT ![t].pc = "l9"]
    /\ UNCHANGED <<serverVars, observed, writes, calls, written>>

\* memory_manager.py 9, and return
ThreadLine9(t) ==
    /\ thread[t].pc = "l9"
    /\ memory_store' = SetParams(memory_store, thread[t].session_id, thread[t].params)
    /\ thread' = [thread EXCEPT ![t] = IdleThread]
    /\ UNCHANGED <<serverVars, observed, writes, calls, written>>

\* memory_manager.py 11-13: a thread calls get_context and looks at the result.
ThreadGet(t) ==
    /\ thread[t].pc = "idle"
    /\ observed' = get_context(memory_store, SharedId)
    /\ UNCHANGED <<serverVars, memory_store, thread, writes, calls, written>>

ThreadNext ==
    \E t \in Threads :
        \/ \E last_query \in QueryNames, params \in ParamSets :
             ThreadCallUpdate(t, SharedId, last_query, params)
        \/ ThreadLine6(t) \/ ThreadLine7(t) \/ ThreadLine8(t) \/ ThreadLine9(t)
        \/ ThreadGet(t)

ThreadSpec == ClientStart /\ [][ThreadNext]_vars

\* ================================================================ properties
\* A keyword occurs in a text as a case-insensitive substring.
OccursIn(keyword, text) == Contains(Lower(keyword), Lower(text))

\* The entry's match rule: its keyword list, empty when the key is absent.
Rule(details) == DictGet(details, "keywords", <<>>)

\* Every keyword of the rule occurs in the text; textOpt is <<>> when the
\* request carries no query_text.
RuleSatisfied(details, textOpt) ==
    \A i \in 1..Len(Rule(details)) :
        textOpt # <<>> /\ OccursIn(Rule(details)[i], textOpt[1])

Satisfied(queries, textOpt) ==
    { i \in 1..Len(queries) : RuleSatisfied(queries[i].details, textOpt) }

TextOpt(r) ==
    IF HasKey(frame[r].payload, "query_text") THEN << user_query(r) >> ELSE <<>>

\* The request has been through line 25 of handle_query.
Resolved(r) == frame[r].pc \notin {"idle", "pending", "l25"}

Finished(r) == frame[r].pc = "done"

CompleteEntry(entry) == DOMAIN entry = {"last_query", "params"}

\* C1: a request that fails resolution or execution (any non-200 outcome,
\* a missing environment profile included) leaves the session store exactly as
\* it found it, and a session id has an entry only if some request with that id
\* got its result back from execute_query.
C1_FailedRequestLeavesStore ==
    /\ \A r \in Requests :
          (frame[r].pc \notin {"idle", "pending"} /\ frame[r].status # 200)
              => memory_store = frame[r].store0
    /\ \A id \in DOMAIN memory_store : id \in succeeded

\* C1 witness: a request for session "default" names an environment without a
\* profile and ends 500 from execute_query while the store holds only "u1".
C1_Witness ==
    \E r \in Requests :
        /\ Finished(r) /\ frame[r].error = "FileNotFoundError" /\ frame[r].called
        /\ user_id(r) = "default"
        /\ DOMAIN memory_store = {"u1"}

\* C2: when no catalog entry's keywords all occur in the query text, the
\* request ends with status 400 and execute_query is never called: no profile
\* is loaded and no connection is opened.
C2_NoMatchShortCircuits ==
    \A r \in Requests :
        (Resolved(r) /\ Satisfied(frame[r].match_queries, TextOpt(r)) = {})
            => /\ Finished(r) /\ frame[r].status = 400
               /\ ~frame[r].called /\ ~frame[r].env_config /\ frame[r].conn = "none"

\* Supporting check for C2: restricted to requests that carry a query_text
\* string, the short circuit holds.
NoMatchShortCircuitsWithText ==
    \A r \in Requests :
        (Resolved(r) /\ TextOpt(r) # <<>>
            /\ Satisfied(frame[r].match_queries, TextOpt(r)) = {})
            => /\ Finished(r) /\ frame[r].status = 400
               /\ ~frame[r].called /\ ~frame[r].env_config /\ frame[r].conn = "none"

\* C3: once execute_query has opened a connection and cursor, both are
\* closed by the time it returns or raises.
C3_ConnectionReleased ==
    \A r \in Requests :
        frame[r].pc \in {"l33", "done"}
            => frame[r].conn \in {"none", "closed"} /\ frame[r].cursor \in {"none", "closed"}

\* C4: when some entry's keywords all occur, case-insensitively, in the
\* text, match_intent returns the name of the first such entry in file order.
C4_FirstMatchWins ==
    \A r \in Requests :
        (Resolved(r) /\ TextOpt(r) # <<>> /\ Satisfied(frame[r].match_queries, TextOpt(r)) # {})
            => LET first == CHOOSE i \in Satisfied(frame[r].match_queries, TextOpt(r)) :
                              \A j \in Satisfied(frame[r].match_queries, TextOpt(r)) : i <= j
               IN  frame[r].query_name = << frame[r].match_queries[first].name >>

\* Every keyword of the catalog is written in lower case.
LowerCaseRules(queries) ==
    \A i \in 1..Len(queries) : \A k \in 1..Len(Rule(queries[i].details)) :
        Lower(Rule(queries[i].details)[k]) = Rule(queries[i].details)[k]

\* Supporting check for C4: with lower-case keywords the first satisfied
\* entry in file order is the one returned.
FirstMatchWinsLowerCaseRules ==
    \A r \in Requests :
        (Resolved(r) /\ TextOpt(r) # <<>> /\ LowerCaseRules(frame[r].match_queries)
            /\ Satisfied(frame[r].match_queries, TextOpt(r)) # {})
            => LET first == CHOOSE i \in Satisfied(frame[r].match_queries, TextOpt(r)) :
                              \A j \in Satisfied(frame[r].match_queries, TextOpt(r)) : i <= j
               IN  frame[r].query_name = << frame[r].match_queries[first].name >>

\* Supporting check for C5: the part about the entry left once every call has
\* returned, on its own.
FinalEntryIsOneWrite ==
    (HasKey(memory_store, SharedId) /\ \A t \in Threads : thread[t].pc = "idle")
        => /\ CompleteEntry(memory_store[SharedId])
           /\ <<SharedId, memory_store[SharedId]["last_query"],
                 memory_store[SharedId]["params"]>> \in writes

\* C5: with concurrent update_context and get_context calls for one session
\* id, the entry a reader sees, and the entry left when all calls have returned,
\* is complete and is the template and parameters of a single issued write.
C5_NoTornEntries ==
    LET OneWrite(entry) ==
            /\ CompleteEntry(entry)
            /\ <<SharedId, entry["last_query"], entry["params"]>> \in writes
    IN  /\ observed # <<>> => OneWrite(observed[1])
        /\ (HasKey(memory_store, SharedId) /\ \A t \in Threads : thread[t].pc = "idle")
              => OneWrite(memory_store[SharedId])

\* C6: update_context(id, t, p) followed immediately by get_context(id)
\* returns exactly t and p; an update replaces the whole entry whatever it held;
\* the entries of other ids stay as they were; get_context changes nothing and
\* returns None for an id never written.
C6_RecordThenRead ==
    calls # <<>> =>
        LET c == calls[1]
        IN  /\ c.op = "update" =>
                  /\ memory_store[c.session_id] =
                         [last_query |-> c.last_query, params |-> c.params]
                  /\ \A id \in SessionIds \ {c.session_id} :
                         /\ HasKey(memory_store, id) <=> HasKey(c.before, id)
                         /\ HasKey(memory_store, id) => memory_store[id] = c.before[id]
            /\ c.op = "get" =>
                  /\ memory_store = c.before
                  /\ c.session_id \notin written => c.result = <<>>
                  /\ (Len(calls) = 2 /\ calls[2].op = "update"
                        /\ calls[2].session_id = c.session_id)
                       => c.result = << [last_query |-> calls[2].last_query,
                                         params |-> calls[2].params] >>

\* C6 witness: an entry with {"year": 2023} is overwritten by an update with
\* another template and empty params, and the next call reads it back.
C6_Witness ==
    /\ Len(calls) = 2
    /\ calls[1].op = "get" /\ calls[2].op = "update"
    /\ calls[1].session_id = calls[2].session_id
    /\ calls[2].last_query = "sales" /\ DOMAIN calls[2].params = {}
    /\ calls[1].result # <<>>
    /\ HasKey(memory_store, "default") /\ HasKey(memory_store, "u1")

\* C7: for every query text the handler passes, an absent one included,
\* and every catalog in which no rule is satisfied, match_intent returns None
\* without raising.
C7_MatchIntentTotal ==
    \A r \in Requests :
        (Resolved(r) /\ Satisfied(frame[r].match_queries, TextOpt(r)) = {})
            => frame[r].error # "AttributeError" /\ frame[r].query_name = <<>>

\* C8: while one request is inside execute_query, a request that is waiting
\* can start.
C8_OtherRequestsCanStart ==
    \A r1, r2 \in Requests :
        (frame[r1].pc \in {"l18", "l24", "l26"} /\ frame[r2].pc = "pending")
            => ENABLED Begin(r2)

\* C9: execute_query sees the catalog match_intent saw, so the name
\* match_intent returned is always found (no "not found" failure).
C9_MatchedNameIsFound ==
    \A r \in Requests :
        /\ frame[r].env_config => frame[r].exec_queries = frame[r].match_queries
        /\ frame[r].error # "ValueError"

\* C10: an entry whose match rule is empty or absent is never the one
\* match_intent returns.
C10_EmptyRuleNeverMatches ==
    \A r \in Requests :
        (Resolved(r) /\ frame[r].query_name # <<>>)
            => Rule(Details(frame[r].match_queries, frame[r].query_name[1])) # <<>>

====
